---- MODULE Spec2Model ----
(***************************************************************************)
(* FileTracker (objectserver/internal/filetracker.go): the per-disk index  *)
(* of whole files.  One sqlite database and one directory per disk         *)
(* partition; Commit moves a temp file into place and records it in the    *)
(* partition's `files` table, newest timestamp wins, metadata of differing *)
(* metahash is merged with kvt.Store.Absorb.                               *)
(*                                                                         *)
(* Each Commit call is a process; its steps are the statements of Commit   *)
(* that touch the database or the filesystem.  The sqlite engine is        *)
(* modelled by its file locks: a transaction holds SHARED from its first   *)
(* SELECT to its end, RESERVED from its first write, and COMMIT needs      *)
(* every other SHARED lock of the database gone.                           *)
(***************************************************************************)
EXTENDS Integers, Sequences, FiniteSets, TLC

\* ------------------------------------------------------------------ bounds
MaxCalls == 2
MaxTimestamp == 2

Calls == 1..MaxCalls
Timestamps == 1..MaxTimestamp
Shards == {0}

\* ------------------------------------------------------------- validateHash
HashLen == 32
ByteBits == 8
defaultDiskPartPower == 6
diskPartPower == defaultDiskPartPower

Pow2(n) == IF n = 0 THEN 1 ELSE IF n = 1 THEN 2 ELSE IF n = 2 THEN 4
           ELSE IF n = 3 THEN 8 ELSE IF n = 4 THEN 16 ELSE IF n = 5 THEN 32
           ELSE IF n = 6 THEN 64 ELSE IF n = 7 THEN 128 ELSE 256

DiskParts == 0..(Pow2(diskPartPower) - 1)

LowerDigits == <<"0", "1", "2", "3", "4", "5", "6", "7", "8", "9",
                 "a", "b", "c", "d", "e", "f">>
UpperDigits == <<"0", "1", "2", "3", "4", "5", "6", "7", "8", "9",
                 "A", "B", "C", "D", "E", "F">>

\* strings.ToLower on one character
LowerChar(ch) ==
    IF \E i \in 11..16 : UpperDigits[i] = ch
    THEN LowerDigits[CHOOSE i \in 11..16 : UpperDigits[i] = ch]
    ELSE ch

ToLower(s) == [i \in 1..Len(s) |-> LowerChar(s[i])]

IsHexChar(ch) == \E i \in 1..16 : LowerDigits[i] = ch \/ UpperDigits[i] = ch

HexVal(ch) == (CHOOSE i \in 1..16 : LowerDigits[i] = ch \/ UpperDigits[i] = ch) - 1

\* hex.DecodeString, first byte only (the only byte validateHash uses)
FirstByte(s) == HexVal(s[1]) * 16 + HexVal(s[2])

\* (mutant: the byte is shifted by the partition power)
validateHashOfLowShift(ft, hsh) ==
    LET low == ToLower(hsh) IN
    IF Len(low) # HashLen
    THEN [err |-> TRUE, hsh |-> << >>, diskPart |-> 0]
    ELSE IF \E i \in 1..Len(low) : ~IsHexChar(low[i])
    THEN [err |-> TRUE, hsh |-> << >>, diskPart |-> 0]
    ELSE [err |-> FALSE, hsh |-> low,
          diskPart |-> FirstByte(low) \div Pow2(ft.diskPartPower)]

\* ft.validateHash(hsh) of a tracker ft of any partition power
validateHashOf(ft, hsh) ==
    LET low == ToLower(hsh) IN
    IF Len(low) # HashLen
    THEN [err |-> TRUE, hsh |-> << >>, diskPart |-> 0]
    ELSE IF \E i \in 1..Len(low) : ~IsHexChar(low[i])
    THEN [err |-> TRUE, hsh |-> << >>, diskPart |-> 0]
    ELSE [err |-> FALSE, hsh |-> low,
          diskPart |-> FirstByte(low) \div Pow2(ByteBits - ft.diskPartPower)]

\* (mutant: the length of the hash is not checked)
validateHashAnyLength(hsh) ==
    LET low == ToLower(hsh) IN
    IF \E i \in 1..Len(low) : ~IsHexChar(low[i])
    THEN [err |-> TRUE, hsh |-> << >>, diskPart |-> 0]
    ELSE [err |-> FALSE, hsh |-> low,
          diskPart |-> FirstByte(low) \div Pow2(ByteBits - diskPartPower)]

\* ft.validateHash(hsh) of the tracker of the default partition power
validateHash(hsh) == validateHashOf([diskPartPower |-> diskPartPower], hsh)

NoPath == << >>

\* The hash arguments the callers pass.
Rep(ch, n) == [i \in 1..n |-> ch]
HashUpper == <<"7", "F">> \o Rep("F", HashLen - 2)
HashLower == <<"7", "f">> \o Rep("f", HashLen - 2)
HashZero == Rep("0", HashLen)
HashShort == Rep("0", HashLen - 1)
HashNonHex == <<"g">> \o Rep("0", HashLen - 1)
CommitHashes == {HashUpper, HashNonHex}
TempHashes == {HashLower, HashShort}

\* validateHash on every hash the callers pass, and on its own results.
Hash40 == <<"4", "0">> \o Rep("0", HashLen - 2)
HashBF == <<"B", "F">> \o Rep("F", HashLen - 2)
HashFF == Rep("f", HashLen)
HashLong == Rep("0", HashLen + 1)
Hash7E == <<"7", "e">> \o Rep("0", HashLen - 2)
LookupHashes == {HashUpper, HashZero, HashNonHex, HashLong}
ListHashes == {HashZero, Hash40, HashBF, HashShort}
HashArgs == {HashUpper, HashLower, HashZero, HashShort, HashNonHex,
             Hash40, HashBF, HashFF, HashLong, Hash7E}
Validated ==
    LET first == [h \in HashArgs |-> validateHash(h)]
        again == {first[h].hsh : h \in HashArgs} \ HashArgs
    IN  [h \in HashArgs \cup again |->
            IF h \in HashArgs THEN first[h] ELSE validateHash(h)]

wholeFilePath(hsh, shard, timestamp) ==
    LET v == Validated[hsh] IN
    IF v.err THEN NoPath ELSE <<v.diskPart, v.hsh, shard, timestamp>>

\* fmt.Sprintf("%02x/%032x.%02x.%019d", diskPart, hsh, shard, timestamp) on
\* the arguments that wholeFilePath gives it: the name of the file on disk.
DecimalDigits == <<"0", "1", "2", "3", "4", "5", "6", "7", "8", "9">>

\* %x and %d of a number that is not negative
RECURSIVE Digits(_, _)
Digits(n, digits) ==
    IF n < Len(digits) THEN <<digits[n + 1]>>
    ELSE Digits(n \div Len(digits), digits) \o <<digits[(n % Len(digits)) + 1]>>

\* the 0 flag with a width: zeros on the left up to the width, never a cut
ZeroPad(s, width) == IF Len(s) >= width THEN s ELSE Rep("0", width - Len(s)) \o s

\* the byte of a character of a validated hash (ASCII)
CharCode(ch) == IF HexVal(ch) < 10 THEN 48 + HexVal(ch) ELSE 87 + HexVal(ch)

\* %x of a string: two hex digits for each of its bytes
HexOfString(str) ==
    [i \in 1..(2 * Len(str)) |->
        ZeroPad(Digits(CharCode(str[(i + 1) \div 2]), LowerDigits), 2)[2 - (i % 2)]]

\* (mutant: the shard is not part of the name)
SprintfWithoutShard(pth) ==
    ZeroPad(Digits(pth[1], LowerDigits), 2) \o <<"/">>
    \o ZeroPad(HexOfString(pth[2]), 32) \o <<".">>
    \o ZeroPad(Digits(pth[4], DecimalDigits), 19)

Sprintf(pth) ==
    ZeroPad(Digits(pth[1], LowerDigits), 2) \o <<"/">>
    \o ZeroPad(HexOfString(pth[2]), 32) \o <<".">>
    \o ZeroPad(Digits(pth[3], LowerDigits), 2) \o <<".">>
    \o ZeroPad(Digits(pth[4], DecimalDigits), 19)

\* ------------------------------------------------------------ kvt.Store
MetaKeys == <<"a", "b">>
MetaValues == {1, 2}

\* A kvt.Store is a function from some of the keys to values.
StoreOf(pairs) == [k \in {p[1] : p \in pairs} |-> (CHOOSE p \in pairs : p[1] = k)[2]]

\* json.Marshal of a store: the fields in key order.  Bytes that are not
\* JSON are [json |-> FALSE].
RECURSIVE FieldsFrom(_, _)
FieldsFrom(store, i) ==
    IF i > Len(MetaKeys) THEN << >>
    ELSE IF MetaKeys[i] \in DOMAIN store
    THEN <<(<<MetaKeys[i], store[MetaKeys[i]]>>)>> \o FieldsFrom(store, i + 1)
    ELSE FieldsFrom(store, i + 1)

Marshal(store) == [json |-> TRUE, fields |-> FieldsFrom(store, 1)]

Unmarshal(bytes) ==
    IF ~bytes.json
    THEN [err |-> TRUE, store |-> StoreOf({})]
    ELSE [err |-> FALSE,
          store |-> StoreOf({bytes.fields[i] : i \in 1..Len(bytes.fields)})]

Hash(store) == [md5 |-> FieldsFrom(store, 1)]

Absorb(store, other) ==
    [k \in DOMAIN store \cup DOMAIN other |->
        IF k \in DOMAIN store THEN store[k] ELSE other[k]]

CorruptBytes == [json |-> FALSE, fields |-> <<(<<"{", 0>>)>>]
OpaqueHash == [md5 |-> <<(<<"?", 0>>)>>]

StoreA == StoreOf({<<"a", 1>>})
StoreB == StoreOf({<<"a", 2>>, <<"b", 2>>})

\* The (metahash, metadata) pairs the callers pass.
MetaInputs ==
    {[metahash |-> Hash(s), metadata |-> Marshal(s)] : s \in {StoreA, StoreB}}
    \cup {[metahash |-> OpaqueHash, metadata |-> CorruptBytes]}

\* ------------------------------------------------------------------ state
VARIABLES
    dbs,     \* the rows of the `files` tables, each with the partition of its database
    files,   \* the whole files on disk: final path -> the handle whose bytes it holds
    calls    \* calls[c]: one TempFile/Commit call sequence and its locals

vars == <<dbs, files, calls>>

NoMeta == [metahash |-> OpaqueHash, metadata |-> CorruptBytes]

IdleCall ==
    [pc |-> "idle", handle |-> "none", result |-> "none", outcome |-> "none",
     hsh |-> << >>, diskPart |-> 0, shard |-> 0, timestamp |-> 0,
     metahash |-> NoMeta.metahash, metadata |-> NoMeta.metadata,
     removeOlder |-> NoPath, returned |-> << >>, logged |-> << >>]

\* The tracker is opened on a disk that may already hold a file of the key
\* the callers commit to, recorded without metadata (the metadata column is
\* nullable, the metahash empty), and that holds a file of another shard of
\* the same hash.
EmptyHash == [md5 |-> <<(<<"", 0>>)>>]
NullBytes == [json |-> FALSE, fields |-> << >>]
\* The bytes of a whole file are named by the handle they were written through.
BytesOf(handle) == [writtenThrough |-> handle]
ExistingBytes == BytesOf(0)
ExistingRow ==
    [diskPart |-> Validated[HashLower].diskPart,
     hash |-> Validated[HashLower].hsh, shard |-> 0, timestamp |-> 0,
     metahash |-> EmptyHash, metadata |-> NullBytes]
NeighbourRow ==
    [diskPart |-> Validated[HashLower].diskPart,
     hash |-> Validated[HashLower].hsh, shard |-> 1, timestamp |-> 1,
     metahash |-> Hash(StoreA), metadata |-> Marshal(StoreA)]
PathOf(row) == wholeFilePath(row.hash, row.shard, row.timestamp)

Init ==
    /\ dbs \in {{NeighbourRow}, {NeighbourRow, ExistingRow}}
    /\ files = [p \in {PathOf(r) : r \in dbs} |-> ExistingBytes]
    /\ calls = [c \in Calls |-> IdleCall]

\* ------------------------------------------------------------ the index
\* ft.dbs[diskPart]: the table of one partition's database
Table(diskPart) == {r \in dbs : r.diskPart = diskPart}

Matching(rows, hsh, shard) == {r \in rows : r.hash = hsh /\ r.shard = shard}

\* SELECT ... WHERE hash = ? AND shard = ? ORDER BY timestamp DESC, first row
SelectRow(rows, hsh, shard) ==
    LET m == Matching(rows, hsh, shard) IN
    CHOOSE r \in m : \A q \in m : q.timestamp <= r.timestamp

\* CONSTRAINT ix_files_hash_shard PRIMARY KEY (hash, shard)
PrimaryKeyFree(rows, hsh, shard) == Matching(rows, hsh, shard) = {}

InsertRow(rows, row) == rows \cup {row}

\* (mutant: the new values are added as another row)
UpdateRowsAppend(rows, row) == rows \cup {row}

UpdateRows(rows, row) ==
    (rows \ Matching(rows, row.hash, row.shard))
    \cup {row : r \in Matching(rows, row.hash, row.shard)}

\* ------------------------------------------------------------ the files
FileExists(pth) == pth \in DOMAIN files

\* (mutant: nothing is written at the path)
WriteFileNot(fs, pth, content) == fs

WriteFile(fs, pth, content) ==
    [p \in DOMAIN fs \cup {pth} |-> IF p = pth THEN content ELSE fs[p]]

\* (mutant: the file is left in place)
RemoveFileNot(fs, pth) == fs

RemoveFile(fs, pth) == [p \in DOMAIN fs \ {pth} |-> fs[p]]

\* ---------------------------------------------------------- sqlite locks
InTx(c) == calls[c].pc \in {"save", "exec", "txcommit"}
HoldsReserved(c) == calls[c].pc = "txcommit"

\* (mutant: one lock for the databases of all partitions)
OthersSharedAnyPartition(c) ==
    \E o \in Calls \ {c} : InTx(o)

OthersShared(c) ==
    \E o \in Calls \ {c} : InTx(o) /\ calls[o].diskPart = calls[c].diskPart

OthersReserved(c) ==
    \E o \in Calls \ {c} : HoldsReserved(o) /\ calls[o].diskPart = calls[c].diskPart

\* ------------------------------------------------------------ Commit
\* f.Abandon(): a no-op once f.Save() was called.
Abandoned(handle) == IF handle = "open" THEN "abandoned" ELSE handle

\* The deferred tear down of Commit: rows.Close(), tx.Rollback(), f.Abandon();
\* the call returns `result`.
Return(c, result, outcome) ==
    [calls EXCEPT ![c] =
        [@ EXCEPT !.pc = "done", !.result = result, !.outcome = outcome,
                  !.handle = Abandoned(@),
                  !.metahash = NoMeta.metahash,
                  !.metadata = NoMeta.metadata,
                  !.removeOlder = NoPath]]

\* A return before the defer statement is reached: nothing is torn down.
ReturnEarly(c, result) ==
    [calls EXCEPT ![c] = [@ EXCEPT !.pc = "done", !.result = result]]

\* (mutant: the statement of the transaction stays in the table)
RollbackNot(rows, executed) == executed

\* tx.Rollback(): the table is as it was before the transaction's statement.
Rollback(rows, executed) == rows

\* (mutants: the check reversed; the check without the tie)
IsStaleReversed(dbTimestamp, timestamp) == dbTimestamp <= timestamp
IsStaleStrict(dbTimestamp, timestamp) == dbTimestamp > timestamp

\* (mutant: no commit is discarded)
IsStaleNever(dbTimestamp, timestamp) == FALSE

\* dbTimestamp >= timestamp: there is already a newer (or the same) file.
IsStale(dbTimestamp, timestamp) == dbTimestamp >= timestamp

\* what ft.logger.Error is called with before the commit goes on
LogDecoding == "error decoding metadata from db; discarding"
LogReencoding == "error reencoding metadata from db; discarding"
LogRemoving == "error removing older file"

\* ft.logger.Error(msg, ...): the messages a call has logged, in order
Log(logged, msg) == IF msg = "none" THEN logged ELSE Append(logged, msg)

\* (mutant: the metahash of the caller is kept for the merged metadata)
ReconcileKeepsCallerHash(metahash, metadata, dbMetadata, encOK, dbEncOK) ==
    LET m == Unmarshal(metadata)
        d == Unmarshal(dbMetadata)
        kept(logged) == [err |-> FALSE, metahash |-> metahash,
                         metadata |-> metadata, logged |-> logged]
        failed == [err |-> TRUE, metahash |-> metahash, metadata |-> metadata,
                   logged |-> "none"]
    IN  IF m.err THEN failed
        ELSE IF d.err THEN kept(LogDecoding)
        ELSE LET metastore == Absorb(m.store, d.store) IN
             IF ~encOK
             THEN IF ~dbEncOK THEN kept(LogReencoding) ELSE failed
             ELSE [err |-> FALSE, metahash |-> metahash,
                   metadata |-> Marshal(metastore), logged |-> "none"]

\* (mutant: metadata of the caller that does not decode is stored as it is)
ReconcileKeepsUndecodable(metahash, metadata, dbMetadata, encOK, dbEncOK) ==
    LET m == Unmarshal(metadata)
        d == Unmarshal(dbMetadata)
        kept(logged) == [err |-> FALSE, metahash |-> metahash,
                         metadata |-> metadata, logged |-> logged]
        failed == [err |-> TRUE, metahash |-> metahash, metadata |-> metadata,
                   logged |-> "none"]
    IN  IF m.err THEN kept("none")
        ELSE IF d.err THEN kept(LogDecoding)
        ELSE LET metastore == Absorb(m.store, d.store) IN
             IF ~encOK
             THEN IF ~dbEncOK THEN kept(LogReencoding) ELSE failed
             ELSE [err |-> FALSE, metahash |-> Hash(metastore),
                   metadata |-> Marshal(metastore), logged |-> "none"]

\* (mutant: the fall back is taken when the stored metadata encodes)
ReconcileFallsBackWhenStoredEncodes(metahash, metadata, dbMetadata, encOK, dbEncOK) ==
    LET m == Unmarshal(metadata)
        d == Unmarshal(dbMetadata)
        kept(logged) == [err |-> FALSE, metahash |-> metahash,
                         metadata |-> metadata, logged |-> logged]
        failed == [err |-> TRUE, metahash |-> metahash, metadata |-> metadata,
                   logged |-> "none"]
    IN  IF m.err THEN failed
        ELSE IF d.err THEN kept(LogDecoding)
        ELSE LET metastore == Absorb(m.store, d.store) IN
             IF ~encOK
             THEN IF dbEncOK THEN kept(LogReencoding) ELSE failed
             ELSE [err |-> FALSE, metahash |-> Hash(metastore),
                   metadata |-> Marshal(metastore), logged |-> "none"]

\* (mutant: stored metadata that does not decode fails the commit)
ReconcileFailsOnStored(metahash, metadata, dbMetadata, encOK, dbEncOK) ==
    LET m == Unmarshal(metadata)
        d == Unmarshal(dbMetadata)
        kept(logged) == [err |-> FALSE, metahash |-> metahash,
                         metadata |-> metadata, logged |-> logged]
        failed == [err |-> TRUE, metahash |-> metahash, metadata |-> metadata,
                   logged |-> "none"]
    IN  IF m.err THEN failed
        ELSE IF d.err THEN failed
        ELSE LET metastore == Absorb(m.store, d.store) IN
             IF ~encOK
             THEN IF ~dbEncOK THEN kept(LogReencoding) ELSE failed
             ELSE [err |-> FALSE, metahash |-> Hash(metastore),
                   metadata |-> Marshal(metastore), logged |-> "none"]

\* if metahash != dbMetahash { ... }: the metadata of the two writers is
\* merged.  encOK, dbEncOK: whether json.Marshal of the merged store, of the
\* stored store, succeeds.
Reconcile(metahash, metadata, dbMetadata, encOK, dbEncOK) ==
    LET m == Unmarshal(metadata)
        d == Unmarshal(dbMetadata)
        kept(logged) == [err |-> FALSE, metahash |-> metahash,
                         metadata |-> metadata, logged |-> logged]
        failed == [err |-> TRUE, metahash |-> metahash, metadata |-> metadata,
                   logged |-> "none"]
    IN  IF m.err THEN failed
        ELSE IF d.err THEN kept(LogDecoding)
        ELSE LET metastore == Absorb(m.store, d.store) IN
             IF ~encOK
             THEN IF ~dbEncOK THEN kept(LogReencoding) ELSE failed
             ELSE [err |-> FALSE, metahash |-> Hash(metastore),
                   metadata |-> Marshal(metastore), logged |-> "none"]

NewRow(c) ==
    [diskPart |-> calls[c].diskPart, hash |-> calls[c].hsh, shard |-> calls[c].shard,
     timestamp |-> calls[c].timestamp,
     metahash |-> calls[c].metahash, metadata |-> calls[c].metadata]

\* INSERT when no row was found, UPDATE ... WHERE hash = ? AND shard = ? else.
ExecStatement(rows, c) ==
    IF calls[c].removeOlder = NoPath
    THEN InsertRow(rows, NewRow(c))
    ELSE UpdateRows(rows, NewRow(c))

ExecAllowed(rows, c) ==
    /\ ~OthersReserved(c)
    /\ calls[c].removeOlder = NoPath =>
           PrimaryKeyFree(rows, calls[c].hsh, calls[c].shard)

\* TempFile(hsh, sizeHint)
TempFile(c, hsh, ok) ==
    /\ calls[c].pc = "idle"
    /\ \A b \in Calls : b < c => calls[b].pc # "idle"
    /\ calls' = [calls EXCEPT ![c] =
                    IF Validated[hsh].err \/ ~ok
                    THEN [@ EXCEPT !.pc = "done", !.result = "err"]
                    ELSE [@ EXCEPT !.pc = "opened", !.handle = "open"]]
    /\ UNCHANGED <<dbs, files>>

\* The caller gives the handle up without calling Commit.
AbandonHandle(c) ==
    /\ calls[c].pc = "opened"
    /\ calls' = [calls EXCEPT ![c] =
                    [@ EXCEPT !.pc = "done", !.result = "abandoned",
                              !.handle = Abandoned(@)]]
    /\ UNCHANGED <<dbs, files>>

\* (mutant: the metadata is merged whatever the metahashes are)
MetahashDiffersAlways(metahash, dbMetahash) == TRUE

\* if metahash != dbMetahash
MetahashDiffers(metahash, dbMetahash) == metahash # dbMetahash

\* Whether Commit gets to json.Marshal(metastore): a row was found, it is
\* older, its metahash differs and both sides decode.
Merges(row, timestamp, meta) ==
    /\ ~IsStale(row.timestamp, timestamp)
    /\ meta.metahash # row.metahash
    /\ ~Unmarshal(meta.metadata).err
    /\ ~Unmarshal(row.metadata).err

\* Commit from its start to the merge: validateHash, db.Begin, tx.Query,
\* rows.Next, rows.Scan, the timestamp check and the metadata merge.  The
\* SELECT takes the SHARED lock; nothing before it touches shared state.
\* ok: db.Begin and tx.Query succeed; encOK, dbEncOK: json.Marshal of the
\* merged store, of the stored store, succeeds.
CommitRead(c, hsh, shard, timestamp, meta, ok, encOK, dbEncOK) ==
    /\ calls[c].pc = "opened"
    /\ LET v == Validated[hsh]
           rows == Table(v.diskPart)
           found == Matching(rows, v.hsh, shard) # {}
           row == SelectRow(rows, v.hsh, shard)
           started == [calls EXCEPT ![c] =
                          [@ EXCEPT !.hsh = v.hsh, !.diskPart = v.diskPart,
                                    !.shard = shard, !.timestamp = timestamp,
                                    !.metahash = meta.metahash,
                                    !.metadata = meta.metadata]]
           return(result, outcome) ==
               [started EXCEPT ![c] =
                   [@ EXCEPT !.pc = "done", !.result = result,
                             !.outcome = outcome, !.handle = Abandoned(@),
                             !.metahash = NoMeta.metahash,
                             !.metadata = NoMeta.metadata]]
           goOn(mh, md, older, logged) ==
               [started EXCEPT ![c] =
                   [@ EXCEPT !.pc = "save", !.metahash = mh,
                             !.metadata = md, !.removeOlder = older,
                             !.outcome = logged,
                             !.logged = Log(@, logged)]]
           merged == Reconcile(meta.metahash, meta.metadata, row.metadata,
                               encOK, dbEncOK)
       IN  \* inputs that are not consulted are not varied
           /\ v.err => ok
           /\ encOK => dbEncOK
           /\ ~encOK => ~v.err /\ ok /\ found /\ Merges(row, timestamp, meta)
           /\ calls' =
                IF v.err THEN ReturnEarly(c, "err")
                ELSE IF ~ok THEN return("err", "none")
                ELSE IF ~found
                THEN goOn(meta.metahash, meta.metadata, NoPath, "none")
                ELSE IF IsStale(row.timestamp, timestamp)
                THEN return("ok", "discarded")
                ELSE IF ~MetahashDiffers(meta.metahash, row.metahash)
                THEN goOn(meta.metahash, meta.metadata,
                          wholeFilePath(v.hsh, shard, row.timestamp), "none")
                ELSE IF merged.err THEN return("err", "metadata error")
                ELSE goOn(merged.metahash, merged.metadata,
                          wholeFilePath(v.hsh, shard, row.timestamp),
                          merged.logged)
    /\ UNCHANGED <<dbs, files>>

\* f.Save(pth)
Save(c, ok) ==
    /\ calls[c].pc = "save"
    /\ LET me == calls[c]
           pth == wholeFilePath(me.hsh, me.shard, me.timestamp)
       IN  IF ok
           THEN /\ files' = WriteFile(files, pth, BytesOf(c))
                /\ calls' = [calls EXCEPT ![c] =
                                [@ EXCEPT !.pc = "exec", !.handle = "saved"]]
           ELSE /\ files' = files
                /\ calls' = Return(c, "err", "none")
    /\ UNCHANGED dbs

\* tx.Exec of the INSERT or the UPDATE
Exec(c, ok) ==
    /\ calls[c].pc = "exec"
    /\ ok => ExecAllowed(Table(calls[c].diskPart), c)
    /\ calls' = IF ok
                THEN [calls EXCEPT ![c] = [@ EXCEPT !.pc = "txcommit"]]
                ELSE Return(c, "err", "none")
    /\ UNCHANGED <<dbs, files>>

\* tx.Commit()
TxCommit(c, ok) ==
    /\ calls[c].pc = "txcommit"
    /\ ok => ~OthersShared(c)
    /\ IF ok
       THEN /\ dbs' = (dbs \ Table(calls[c].diskPart))
                          \cup ExecStatement(Table(calls[c].diskPart), c)
            /\ calls' = IF calls[c].removeOlder = NoPath
                        THEN Return(c, "ok", "applied")
                        ELSE [calls EXCEPT ![c] =
                                [@ EXCEPT !.pc = "remove",
                                          !.metahash = NoMeta.metahash,
                                          !.metadata = NoMeta.metadata]]
       ELSE /\ dbs' = (dbs \ Table(calls[c].diskPart))
                          \cup Rollback(Table(calls[c].diskPart),
                                        ExecStatement(Table(calls[c].diskPart), c))
            /\ calls' = Return(c, "err", "none")
    /\ UNCHANGED files

\* (mutant: the error of os.Remove is returned)
RemoveResultPropagated(ok) == IF ok THEN "ok" ELSE "err"

\* return err after os.Remove: err is the nil of tx.Commit, the error of
\* os.Remove is err2
RemoveResult(ok) == "ok"

\* os.Remove(removeOlder); its error is logged only
RemoveOlder(c, ok) ==
    /\ calls[c].pc = "remove"
    /\ files' = IF ok THEN RemoveFile(files, calls[c].removeOlder) ELSE files
    /\ calls' = [Return(c, RemoveResult(ok),
                        IF ok THEN "applied" ELSE "applied, older file left")
                    EXCEPT ![c].logged = Log(@, IF ok THEN "none" ELSE LogRemoving)]
    /\ UNCHANGED dbs

\* The process is killed: every call in progress ends where it is; the
\* databases roll back their open transactions, the files stay.
InCommit(c) == calls[c].pc \in {"save", "exec", "txcommit", "remove"}

Crash ==
    /\ \E c \in Calls : InCommit(c)
    /\ calls' = [c \in Calls |->
                    IF calls[c].pc \in {"idle", "done"} THEN calls[c]
                    ELSE [calls[c] EXCEPT !.pc = "done", !.result = "crashed",
                                          !.metahash = NoMeta.metahash,
                                          !.metadata = NoMeta.metadata,
                                          !.removeOlder = NoPath]]
    /\ UNCHANGED <<dbs, files>>

\* ------------------------------------------------------- Lookup and List
\* (mutant: a statement sees the rows written by an open transaction)
CommittedRowsDirty(diskPart) ==
    IF \E d \in Calls : calls[d].pc = "txcommit" /\ calls[d].diskPart = diskPart
    THEN LET d == CHOOSE e \in Calls :
                     calls[e].pc = "txcommit" /\ calls[e].diskPart = diskPart
         IN  (Table(diskPart) \ Matching(Table(diskPart), calls[d].hsh, calls[d].shard))
                 \cup {[diskPart |-> calls[d].diskPart, hash |-> calls[d].hsh,
                        shard |-> calls[d].shard, timestamp |-> calls[d].timestamp,
                        metahash |-> calls[d].metahash,
                        metadata |-> calls[d].metadata]}
    ELSE Table(diskPart)

\* what a statement outside a transaction sees of a partition's table: the
\* rows of the committed transactions
CommittedRows(diskPart) == Table(diskPart)

\* A read changes nothing that another call sees: the one reading call is
\* the last call to start.
Readers == {MaxCalls}

\* return 0, "", nil, "", err
ZeroReturn(op) ==
    [op |-> op, hsh |-> << >>, shard |-> 0, timestamp |-> 0,
     metahash |-> EmptyHash, metadata |-> NullBytes, path |-> NoPath]

Returns(c, result, returned) ==
    [calls EXCEPT ![c] =
        [@ EXCEPT !.pc = "done", !.result = result, !.returned = returned]]

\* lookup(hsh, shard) of the unexported tracker.  ok: db.Query, rows.Err and
\* rows.Scan report no error.
lookup(c, hsh, shard, ok) ==
    /\ calls[c].pc = "idle" /\ c \in Readers
    /\ \A b \in Calls : b < c => calls[b].pc # "idle"
    /\ LET v == Validated[hsh]
           rows == CommittedRows(v.diskPart)
           zero == [ZeroReturn("lookup") EXCEPT !.hsh = v.hsh, !.shard = shard]
       IN  /\ v.err => ok
           /\ calls' =
                IF v.err THEN Returns(c, "err", ZeroReturn("lookup"))
                ELSE IF ~ok THEN Returns(c, "err", zero)
                ELSE IF Matching(rows, v.hsh, shard) = {}
                THEN Returns(c, "ok", zero)
                ELSE LET row == SelectRow(rows, v.hsh, shard) IN
                     Returns(c, "ok",
                             [zero EXCEPT
                                !.timestamp = row.timestamp,
                                !.metahash = row.metahash,
                                !.metadata = row.metadata,
                                !.path = wholeFilePath(v.hsh, shard, row.timestamp)])
    /\ UNCHANGED <<dbs, files>>

\* Lookup(hsh, shard) of the exported tracker: as lookup, with
\* if len(metadata) != 0 { panic("GLH0") } before rows.Scan, where metadata
\* is still nil, and if len(metadata) != 0 { panic("GLH1") } after it.
Lookup(c, hsh, shard, ok) ==
    /\ calls[c].pc = "idle" /\ c \in Readers
    /\ \A b \in Calls : b < c => calls[b].pc # "idle"
    /\ LET v == Validated[hsh]
           rows == CommittedRows(v.diskPart)
           zero == [ZeroReturn("Lookup") EXCEPT !.hsh = v.hsh, !.shard = shard]
       IN  /\ v.err => ok
           /\ calls' =
                IF v.err THEN Returns(c, "err", ZeroReturn("Lookup"))
                ELSE IF ~ok THEN Returns(c, "err", zero)
                ELSE IF Matching(rows, v.hsh, shard) = {}
                THEN Returns(c, "ok", zero)
                ELSE LET row == SelectRow(rows, v.hsh, shard) IN
                     IF row.metadata # NullBytes
                     THEN Returns(c, "panic", zero)
                     ELSE Returns(c, "ok",
                             [zero EXCEPT
                                !.timestamp = row.timestamp,
                                !.metahash = row.metahash,
                                !.metadata = row.metadata,
                                !.path = wholeFilePath(v.hsh, shard, row.timestamp)])
    /\ UNCHANGED <<dbs, files>>

\* The order of TEXT values in sqlite (memcmp), on lowercase hex strings.
HashLeq(a, b) ==
    LET differ == {i \in 1..HashLen : a[i] # b[i]} IN
    \/ differ = {}
    \/ LET i == CHOOSE j \in differ : \A k \in differ : j <= k
       IN  HexVal(a[i]) < HexVal(b[i])

\* (mutant: the two bounds are taken in either order)
BetweenEitherOrder(rows, startHash, stopHash) ==
    {r \in rows : \/ HashLeq(startHash, r.hash) /\ HashLeq(r.hash, stopHash)
                  \/ HashLeq(stopHash, r.hash) /\ HashLeq(r.hash, startHash)}

\* WHERE hash BETWEEN ? AND ?
Between(rows, startHash, stopHash) ==
    {r \in rows : HashLeq(startHash, r.hash) /\ HashLeq(r.hash, stopHash)}

\* item := &FileTrackerItem{}; rows.Scan(&item.hash, ...)
Item(row) ==
    [hash |-> row.hash, shard |-> row.shard, timestamp |-> row.timestamp,
     metahash |-> row.metahash]

\* the rows of one query as rows.Next() delivers them, by the primary key
RECURSIVE Scanned(_)
Scanned(rows) ==
    IF rows = {} THEN << >>
    ELSE LET first == CHOOSE r \in rows : \A q \in rows :
                         \/ r.hash # q.hash /\ HashLeq(r.hash, q.hash)
                         \/ r.hash = q.hash /\ r.shard <= q.shard
         IN  <<Item(first)>> \o Scanned(rows \ {first})

\* (mutant: the loop stops before the partition of stopHash)
RECURSIVE ListingBeforeStop(_, _, _, _)
ListingBeforeStop(diskPart, stopDiskPart, startHash, stopHash) ==
    IF diskPart >= stopDiskPart THEN << >>
    ELSE Scanned(Between(CommittedRows(diskPart), startHash, stopHash))
         \o ListingBeforeStop(diskPart + 1, stopDiskPart, startHash, stopHash)

\* for diskPart := startDiskPart; diskPart <= stopDiskPart; diskPart++
RECURSIVE Listing(_, _, _, _)
Listing(diskPart, stopDiskPart, startHash, stopHash) ==
    IF diskPart > stopDiskPart THEN << >>
    ELSE Scanned(Between(CommittedRows(diskPart), startHash, stopHash))
         \o Listing(diskPart + 1, stopDiskPart, startHash, stopHash)

\* List(startHash, stopHash).  ok: no db.Query reports an error.  Only one
\* partition's table changes while the calls run, so the queries of the
\* loop are one step.
List(c, startHash, stopHash, ok) ==
    /\ calls[c].pc = "idle" /\ c \in Readers
    /\ \A b \in Calls : b < c => calls[b].pc # "idle"
    /\ LET start == Validated[startHash]
           stop == Validated[stopHash]
           nil == [op |-> "List", startHash |-> start.hsh,
                   stopHash |-> stop.hsh, listing |-> << >>]
       IN  /\ (start.err \/ stop.err \/ start.diskPart > stop.diskPart) => ok
           /\ calls' =
                IF start.err \/ stop.err THEN Returns(c, "err", nil)
                ELSE IF start.diskPart > stop.diskPart THEN Returns(c, "err", nil)
                ELSE IF ~ok THEN Returns(c, "err", nil)
                ELSE Returns(c, "ok",
                        [nil EXCEPT !.listing =
                            Listing(start.diskPart, stop.diskPart,
                                    start.hsh, stop.hsh)])
    /\ UNCHANGED <<dbs, files>>

TempFileCall(c) ==
    /\ calls[c].pc = "idle"
    /\ \E hsh \in TempHashes, ok \in BOOLEAN : TempFile(c, hsh, ok)

CommitCall(c) ==
    /\ calls[c].pc = "opened"
    /\ \E hsh \in CommitHashes, shard \in Shards,
          timestamp \in Timestamps, meta \in MetaInputs,
          ok, encOK, dbEncOK \in BOOLEAN :
            CommitRead(c, hsh, shard, timestamp, meta, ok, encOK, dbEncOK)

Next ==
    \/ \E c \in Calls : TempFileCall(c)
    \/ \E c \in Calls : AbandonHandle(c)
    \/ \E c \in Calls : CommitCall(c)
    \/ \E c \in Calls, ok \in BOOLEAN : Save(c, ok)
    \/ \E c \in Calls, ok \in BOOLEAN : Exec(c, ok)
    \/ \E c \in Calls, ok \in BOOLEAN : TxCommit(c, ok)
    \/ \E c \in Calls, ok \in BOOLEAN : RemoveOlder(c, ok)
    \/ Crash

Spec == Init /\ [][Next]_vars

\* ------------------------------------------ commits to two partitions
\* The callers commit files of two hashes, of the first and of a middle
\* partition, with one timestamp and one metadata.
PartitionHashes == {HashZero, HashUpper}

CommitCallPartitions(c) ==
    /\ calls[c].pc = "opened"
    /\ \E hsh \in PartitionHashes, ok \in BOOLEAN :
          CommitRead(c, hsh, 0, 1,
                     [metahash |-> Hash(StoreA), metadata |-> Marshal(StoreA)],
                     ok, TRUE, TRUE)

NextPartitions ==
    \/ \E c \in Calls : TempFileCall(c)
    \/ \E c \in Calls : AbandonHandle(c)
    \/ \E c \in Calls : CommitCallPartitions(c)
    \/ \E c \in Calls, ok \in BOOLEAN : Save(c, ok)
    \/ \E c \in Calls, ok \in BOOLEAN : Exec(c, ok)
    \/ \E c \in Calls, ok \in BOOLEAN : TxCommit(c, ok)
    \/ \E c \in Calls, ok \in BOOLEAN : RemoveOlder(c, ok)
    \/ Crash

SpecPartitions == Init /\ [][NextPartitions]_vars

\* ------------------------------------------ commits among other keys
\* The disk also holds a file of another hash of the partition the callers
\* commit to, with a timestamp that the callers use.
SamePartitionRow ==
    [diskPart |-> Validated[Hash7E].diskPart, hash |-> Validated[Hash7E].hsh,
     shard |-> 0, timestamp |-> 1,
     metahash |-> Hash(StoreB), metadata |-> Marshal(StoreB)]

InitKeys ==
    /\ dbs \in {{NeighbourRow, SamePartitionRow},
                {NeighbourRow, SamePartitionRow, ExistingRow}}
    /\ files = [p \in {PathOf(r) : r \in dbs} |-> ExistingBytes]
    /\ calls = [c \in Calls |-> IdleCall]

SpecKeys == InitKeys /\ [][Next]_vars

\* ------------------------------------------------------- NewFileTracker
\* One call of NewFileTracker: calls[1] holds its position, the partition i
\* of its loop, and ft.dbs as the set of the partitions whose database
\* handle is open.
Constructing(pc, i, open, result) ==
    [c \in {1} |-> [pc |-> pc, i |-> i, open |-> open, result |-> result]]

TempDir == <<"temp">>
PartDir(i) == <<"dir", i>>
Directory == [directory |-> TRUE]

InitNew ==
    /\ dbs = {}
    /\ files = << >>
    /\ calls = Constructing("temp", 0, {}, "none")

\* os.MkdirAll(ft.tempPath, 0700)
MkdirTemp(ok) ==
    /\ calls[1].pc = "temp"
    /\ IF ok
       THEN /\ files' = WriteFile(files, TempDir, Directory)
            /\ calls' = Constructing("mkdir", 0, {}, "none")
       ELSE /\ files' = files
            /\ calls' = Constructing("done", 0, {}, "err")
    /\ UNCHANGED dbs

\* os.MkdirAll of the directory of partition i; on its error the constructor
\* returns as it is
MkdirPart(ok) ==
    /\ calls[1].pc = "mkdir"
    /\ IF ok
       THEN /\ files' = WriteFile(files, PartDir(calls[1].i), Directory)
            /\ calls' = [calls EXCEPT ![1].pc = "open"]
       ELSE /\ files' = files
            /\ calls' = [calls EXCEPT ![1].pc = "done", ![1].result = "err"]
    /\ UNCHANGED dbs

\* for j := 0; j < i; j++ { ft.dbs[j].Close() }
ClosedBelow(open, i) == {j \in open : ~(j < i)}

\* ft.dbs[i], err = sql.Open(...): a nil handle on its error
OpenDB(ok) ==
    /\ calls[1].pc = "open"
    /\ calls' =
         IF ok
         THEN [calls EXCEPT ![1].pc = "init",
                            ![1].open = @ \cup {calls[1].i}]
         ELSE [calls EXCEPT ![1].pc = "done", ![1].result = "err",
                            ![1].open = ClosedBelow(@, calls[1].i)]
    /\ UNCHANGED <<dbs, files>>

\* ft.init(i): the table is created in a transaction, which is rolled back
\* on an error; then the next partition, or return ft, nil
InitDB(ok) ==
    /\ calls[1].pc = "init"
    /\ calls' =
         IF ~ok
         THEN [calls EXCEPT ![1].pc = "done", ![1].result = "err",
                            ![1].open = ClosedBelow(@, calls[1].i)]
         ELSE IF calls[1].i + 1 < Pow2(diskPartPower)
         THEN [calls EXCEPT ![1].pc = "mkdir", ![1].i = @ + 1]
         ELSE [calls EXCEPT ![1].pc = "done", ![1].result = "ok"]
    /\ UNCHANGED <<dbs, files>>

\* ft.Close()
Close ==
    /\ calls[1].pc = "done" /\ calls[1].result = "ok"
    /\ calls' = [calls EXCEPT ![1].pc = "closed", ![1].open = {}]
    /\ UNCHANGED <<dbs, files>>

NextNew ==
    \/ \E ok \in BOOLEAN : MkdirTemp(ok)
    \/ \E ok \in BOOLEAN : MkdirPart(ok)
    \/ \E ok \in BOOLEAN : OpenDB(ok)
    \/ \E ok \in BOOLEAN : InitDB(ok)
    \/ Close

SpecNew == InitNew /\ [][NextNew]_vars

\* ------------------------------------------------- validateHash on its own
\* Trackers of every partition power validate one hash, its upper case form
\* in the calls of odd number, its lower case form in the others.
DiskPartPowers == 1..8
HighDigits == {"0", "7", "8", "a", "f"}
LowDigits == {"0", "5", "c", "f"}
PartitionedHashes == {<<x, y>> \o Rep("e", HashLen - 2) : x \in HighDigits, y \in LowDigits}

UpperChar(ch) ==
    IF \E i \in 11..16 : LowerDigits[i] = ch
    THEN UpperDigits[CHOOSE i \in 11..16 : LowerDigits[i] = ch]
    ELSE ch
ToUpper(s) == [i \in 1..Len(s) |-> UpperChar(s[i])]

InitHash ==
    /\ dbs = {}
    /\ files = << >>
    /\ \E power \in DiskPartPowers, hsh \in PartitionedHashes :
          calls = [c \in Calls |->
                     [pc |-> "idle", ft |-> [diskPartPower |-> power],
                      hsh |-> IF c % 2 = 1 THEN ToUpper(hsh) ELSE hsh,
                      result |-> << >>]]

ValidateHashCall(c) ==
    /\ calls[c].pc = "idle"
    /\ calls' = [calls EXCEPT ![c] =
                    [@ EXCEPT !.pc = "done",
                              !.result = validateHashOf(calls[c].ft, calls[c].hsh)]]
    /\ UNCHANGED <<dbs, files>>

NextHash == \E c \in Calls : ValidateHashCall(c)

SpecHash == InitHash /\ [][NextHash]_vars

\* ------------------------------------------------- the tracker with readers
\* The disk holds files of three more hashes, in the first, a middle and the
\* last partition.
RowAt(hsh, shard, timestamp, store) ==
    [diskPart |-> Validated[hsh].diskPart, hash |-> Validated[hsh].hsh,
     shard |-> shard, timestamp |-> timestamp,
     metahash |-> Hash(store), metadata |-> Marshal(store)]

ListedRows ==
    {RowAt(HashZero, 0, 1, StoreA), RowAt(HashBF, 0, 2, StoreB),
     RowAt(HashFF, 1, 1, StoreA)}

InitReads ==
    /\ dbs \in {{NeighbourRow} \cup ListedRows,
                {NeighbourRow, ExistingRow} \cup ListedRows}
    /\ files = [p \in {PathOf(r) : r \in dbs} |-> ExistingBytes]
    /\ calls = [c \in Calls |-> IdleCall]

LookupCall(c) ==
    /\ calls[c].pc = "idle"
    /\ \E hsh \in LookupHashes, shard \in {0, 1}, ok \in BOOLEAN :
          \/ lookup(c, hsh, shard, ok)
          \/ Lookup(c, hsh, shard, ok)

ListCall(c) ==
    /\ calls[c].pc = "idle"
    /\ \E startHash, stopHash \in ListHashes, ok \in BOOLEAN :
          List(c, startHash, stopHash, ok)

NextReads ==
    \/ Next
    \/ \E c \in Calls : LookupCall(c)
    \/ \E c \in Calls : ListCall(c)

SpecReads == InitReads /\ [][NextReads]_vars

\* ------------------------------------------------- listings of any range
\* The last caller lists between hashes of the first partition, of one
\* middle partition (two hashes) and of a later one, in either order, while
\* the others commit; the disk holds files at both hashes of the middle
\* partition.
RangeHashes == {HashZero, Hash7E, HashUpper, HashBF}

InitList ==
    /\ dbs \in {{NeighbourRow, SamePartitionRow} \cup ListedRows,
                {NeighbourRow, SamePartitionRow, ExistingRow} \cup ListedRows}
    /\ files = [p \in {PathOf(r) : r \in dbs} |-> ExistingBytes]
    /\ calls = [c \in Calls |-> IdleCall]

ListCallRange(c) ==
    /\ calls[c].pc = "idle"
    /\ \E startHash, stopHash \in RangeHashes, ok \in BOOLEAN :
          List(c, startHash, stopHash, ok)

NextList ==
    \/ NextPartitions
    \/ \E c \in Calls : ListCallRange(c)

SpecList == InitList /\ [][NextList]_vars

\* =================================================================
\* Properties
\* =================================================================
Returned(c) == calls[c].pc = "done"

\* Every call that was made has returned, and the process was not killed.
Quiescent ==
    \A c \in Calls : calls[c].pc \in {"idle", "done"} /\ calls[c].result # "crashed"

\* c is a Commit call that got past validateHash and has ended
Committed(c) == Returned(c) /\ calls[c].hsh # << >>
OkCommit(c) == Committed(c) /\ calls[c].result = "ok"
Applied(c) == calls[c].outcome \in {"applied", "applied, older file left"}

SameKey(c, d) == calls[c].hsh = calls[d].hsh /\ calls[c].shard = calls[d].shard

RowsOf(c) == Matching(Table(calls[c].diskPart), calls[c].hsh, calls[c].shard)

MaxOf(S) == CHOOSE x \in S : \A y \in S : y <= x

\* -----------------------------------------------------------------
\* C1 as stated: once all calls have returned, the record of a key carries
\* the highest timestamp among all the commits attempted for the key.
C1_HighestAttemptedStored ==
    Quiescent =>
        \A c \in Calls : Committed(c) =>
            /\ RowsOf(c) # {}
            /\ \A r \in RowsOf(c) :
                  r.timestamp =
                    MaxOf({calls[d].timestamp :
                             d \in {e \in Calls : Committed(e) /\ SameKey(c, e)}})

\* C1, amended: once all calls have returned, the record of a key carries the
\* highest timestamp among the commits for the key that returned success (a
\* commit that returned an error wrote nothing).
C1_HighestSuccessfulStored ==
    Quiescent =>
        \A c \in Calls : OkCommit(c) =>
            /\ RowsOf(c) # {}
            /\ \A r \in RowsOf(c) :
                  r.timestamp =
                    MaxOf({calls[d].timestamp :
                             d \in {e \in Calls : OkCommit(e) /\ SameKey(c, e)}})

\* The newer commit ran first and the older one was discarded after it.
C1_Witness ==
    /\ Quiescent
    /\ \E c, d \in Calls :
          /\ c # d /\ OkCommit(c) /\ OkCommit(d) /\ SameKey(c, d)
          /\ calls[c].timestamp > calls[d].timestamp
          /\ Applied(c) /\ calls[d].outcome = "discarded"

\* -----------------------------------------------------------------
\* C2: a commit whose timestamp is not above the stored one returns success
\* and changes nothing: the tables and the files stay as they are, nothing
\* is published and the temp file is abandoned.
C2_StaleCommitChangesNothing ==
    [][\A c \in Calls :
          ( /\ calls[c].pc = "opened" /\ calls'[c].pc # "opened"
            /\ calls'[c].hsh # << >>
            /\ \E r \in Matching(Table(calls'[c].diskPart), calls'[c].hsh,
                                 calls'[c].shard) :
                  r.timestamp >= calls'[c].timestamp )
          => /\ calls'[c].pc = "done"
             /\ calls'[c].handle = "abandoned"
             /\ dbs' = dbs /\ files' = files
             /\ \/ calls'[c].result = "ok" /\ calls'[c].outcome = "discarded"
                \/ \* db.Begin or tx.Query failed
                   \A hsh \in CommitHashes, timestamp \in Timestamps,
                      meta \in MetaInputs :
                        ~CommitRead(c, hsh, calls'[c].shard, timestamp, meta,
                                    TRUE, TRUE, TRUE)
      ]_vars

\* A commit with the timestamp of the stored record was discarded.
C2_Witness ==
    \E c \in Calls :
        /\ OkCommit(c) /\ calls[c].outcome = "discarded"
        /\ calls[c].handle = "abandoned"
        /\ \E r \in RowsOf(c) : r.timestamp = calls[c].timestamp

\* -----------------------------------------------------------------
KeyBlobs(c) == {p \in DOMAIN files : p[2] = calls[c].hsh /\ p[3] = calls[c].shard}
CurrentPath(c) ==
    LET r == SelectRow(RowsOf(c), calls[c].hsh, calls[c].shard)
    IN  wholeFilePath(r.hash, r.shard, r.timestamp)
AllSucceeded(c) ==
    \A d \in Calls : (calls[d].hsh # << >> /\ SameKey(c, d)) => OkCommit(d)
\* the bytes written through the handle of the commit with the stored timestamp
WinnerBytes(c) ==
    \E d \in Calls :
        /\ OkCommit(d) /\ SameKey(c, d) /\ Applied(d)
        /\ wholeFilePath(calls[d].hsh, calls[d].shard, calls[d].timestamp) = CurrentPath(c)
        /\ files[CurrentPath(c)] = BytesOf(d)

\* C3 as stated: after completed successful commits for a key exactly one
\* blob file exists for the key, at the path of the record's timestamp, with
\* the bytes of the commit of that timestamp.
C3_ExactlyOneBlob ==
    Quiescent =>
        \A c \in Calls : (OkCommit(c) /\ AllSucceeded(c)) =>
            /\ KeyBlobs(c) = {CurrentPath(c)}
            /\ WinnerBytes(c)

\* C3, amended: after completed successful commits for a key the blob at the
\* path of the record's timestamp exists and holds the bytes of the commit of
\* that timestamp; any other blob of the key is of an older timestamp, and
\* there is none unless a removal of a superseded file failed.
C3_CurrentBlobAndOrphans ==
    Quiescent =>
        \A c \in Calls : (OkCommit(c) /\ AllSucceeded(c)) =>
            /\ CurrentPath(c) \in KeyBlobs(c)
            /\ WinnerBytes(c)
            /\ \A p \in KeyBlobs(c) \ {CurrentPath(c)} : p[4] < CurrentPath(c)[4]
            /\ (\A d \in Calls : SameKey(c, d) =>
                    calls[d].outcome # "applied, older file left")
               => KeyBlobs(c) = {CurrentPath(c)}

\* T1 then T2 were both applied to a key, and one blob is left.
C3_Witness ==
    /\ Quiescent
    /\ \E c, d \in Calls :
          /\ c # d /\ OkCommit(c) /\ OkCommit(d) /\ SameKey(c, d)
          /\ calls[c].outcome = "applied" /\ calls[d].outcome = "applied"
          /\ calls[c].timestamp < calls[d].timestamp
          /\ KeyBlobs(c) = {CurrentPath(c)}
          /\ files[CurrentPath(c)] = BytesOf(d)

\* -----------------------------------------------------------------
\* C4: the index never holds two records of one (hash, shard) pair.
C4_OneRecordPerKey ==
    \A p \in DiskParts : \A r, q \in Table(p) :
        (r.hash = q.hash /\ r.shard = q.shard) => r = q

\* A winning commit on the key of the existing record has committed: the
\* record was updated in place.
C4_Witness ==
    \E c \in Calls :
        /\ OkCommit(c) /\ Applied(c)
        /\ calls[c].hsh = ExistingRow.hash /\ calls[c].shard = ExistingRow.shard
        /\ RowsOf(c) = {r \in RowsOf(c) : r.timestamp = calls[c].timestamp}
        /\ Cardinality(RowsOf(c)) = 1
        /\ NeighbourRow \in dbs

\* -----------------------------------------------------------------
\* the rows of the key of call c after the step
RowsAfter(c) ==
    {r \in dbs' : /\ r.diskPart = calls[c].diskPart
                  /\ r.hash = calls[c].hsh /\ r.shard = calls[c].shard}

\* call c ends in this step without success: Commit returns an error or the
\* process is killed
Fails(c) ==
    /\ calls[c].pc \in {"opened", "save", "exec", "txcommit"}
    /\ calls'[c].pc = "done"
    /\ calls'[c].result \in {"err", "crashed"}

\* C5: when a commit fails, or the process is killed, before the index
\* transaction is committed, nothing of the index or of the files changes by
\* it, every record still has its blob, and the record the commit read is
\* still the one a lookup of the key finds, with its blob in place (no record
\* if the commit found none).
C5_FailureKeepsPreviousRecord ==
    [][\A c \in Calls : Fails(c) =>
          /\ dbs' = dbs /\ files' = files
          /\ \A r \in dbs' : PathOf(r) \in DOMAIN files'
          /\ calls[c].pc # "opened" =>
                IF calls[c].removeOlder = NoPath
                THEN RowsAfter(c) = {}
                ELSE /\ \A r \in RowsAfter(c) : PathOf(r) = calls[c].removeOlder
                     /\ RowsAfter(c) # {}
                     /\ calls[c].removeOlder \in DOMAIN files'
      ]_vars

\* A commit on the key of the existing record has published its file and
\* failed after it: the existing record and its blob are still there.
C5_Witness ==
    \E c \in Calls :
        /\ Returned(c) /\ calls[c].result \in {"err", "crashed"}
        /\ calls[c].handle = "saved"
        /\ RowsOf(c) = {ExistingRow}
        /\ PathOf(ExistingRow) \in DOMAIN files
        /\ files[PathOf(ExistingRow)] = ExistingBytes
        /\ wholeFilePath(calls[c].hsh, calls[c].shard, calls[c].timestamp)
              \in DOMAIN files

\* -----------------------------------------------------------------
\* C6: a commit that returned an error, and a handle that was abandoned
\* without a commit, have left no file of theirs at the final path of the
\* commit.
C6_FailedCommitLeavesNoFile ==
    \A c \in Calls :
        ( /\ Returned(c) /\ calls[c].result \in {"err", "abandoned"}
          /\ calls[c].hsh # << >> )
        => LET pth == wholeFilePath(calls[c].hsh, calls[c].shard,
                                    calls[c].timestamp)
           IN  ~(pth \in DOMAIN files /\ files[pth] = BytesOf(c))

\* -----------------------------------------------------------------
\* C7: whenever Commit has returned, with success or with an error, the handle
\* it was given is saved or abandoned, never still open.
C7_HandleReleasedOnReturn ==
    \A c \in Calls :
        ( /\ Returned(c) /\ calls[c].result \in {"ok", "err"}
          /\ calls[c].handle # "none" )
        => calls[c].handle \in {"saved", "abandoned"}

\* -----------------------------------------------------------------
\* the step is Commit(f, hsh, shard, timestamp, metahash, metadata) of call c
\* up to its merge, with no failure of db.Begin, tx.Query or json.Marshal,
\* finding a row of an older timestamp and another metahash
WinsWithOtherMetahash(c, hsh, shard, timestamp, meta) ==
    /\ CommitRead(c, hsh, shard, timestamp, meta, TRUE, TRUE, TRUE)
    /\ ~Validated[hsh].err
    /\ \E row \in Matching(Table(Validated[hsh].diskPart), Validated[hsh].hsh, shard) :
          /\ row.timestamp < timestamp
          /\ row.metahash # meta.metahash

StoredRow(hsh, shard) ==
    SelectRow(Table(Validated[hsh].diskPart), Validated[hsh].hsh, shard)

\* tx.Commit of call c succeeds in this step
Commits(c) ==
    /\ calls[c].pc = "txcommit"
    /\ calls'[c].pc \in {"remove", "done"}
    /\ calls'[c].result \in {"none", "ok"}

\* C8: a commit that wins over a record of another metahash, both metadata
\* decoding and the merge encoding, goes on with the merge of both: every key
\* of the incoming metadata with the incoming value, every key only in the
\* stored metadata with the stored value, and the metahash computed from the
\* merged store; that is what its transaction stores.
C8_WinnerStoresMerge ==
    [][\A c \in Calls :
          /\ (calls[c].pc = "opened" /\ calls'[c].pc # "opened") =>
               \A hsh \in CommitHashes, shard \in Shards,
                  timestamp \in Timestamps, meta \in MetaInputs :
                  ( /\ WinsWithOtherMetahash(c, hsh, shard, timestamp, meta)
                    /\ ~Unmarshal(meta.metadata).err
                    /\ ~Unmarshal(StoredRow(hsh, shard).metadata).err )
                  => LET in == Unmarshal(meta.metadata).store
                         db == Unmarshal(StoredRow(hsh, shard).metadata).store
                         new == Unmarshal(calls'[c].metadata)
                     IN  /\ calls'[c].pc = "save"
                         /\ ~new.err
                         /\ DOMAIN new.store = DOMAIN in \cup DOMAIN db
                         /\ \A k \in DOMAIN in : new.store[k] = in[k]
                         /\ \A k \in DOMAIN db \ DOMAIN in : new.store[k] = db[k]
                         /\ calls'[c].metahash = Hash(new.store)
          /\ Commits(c) =>
               /\ RowsAfter(c) = {NewRow(c)}
               /\ PathOf(NewRow(c)) \in DOMAIN files'
      ]_vars

\* A record holds a merge: a key with the value of the stored side only and a
\* key with the value of the incoming side, under the hash of the merge, put
\* there by a commit that was applied.
C8_Witness ==
    \E c \in Calls : \E r \in RowsOf(c) :
        /\ OkCommit(c) /\ Applied(c)
        /\ r.timestamp = calls[c].timestamp
        /\ r.metadata = Marshal(Absorb(StoreA, StoreB))
        /\ r.metahash = Hash(Absorb(StoreA, StoreB))
        /\ r.metahash \notin {Hash(StoreA), Hash(StoreB)}

\* -----------------------------------------------------------------
\* C9: of two commits to a key with different timestamps and different
\* metadata no key is dropped in either order: when the commit of the lower
\* timestamp comes second, the keys of its metadata are in the metadata that
\* stays stored for the key.
C9_NoKeyDroppedInEitherOrder ==
    [][\A c \in Calls :
          (calls[c].pc = "opened" /\ calls'[c].pc # "opened") =>
             \A hsh \in CommitHashes, shard \in Shards,
                timestamp \in Timestamps, meta \in MetaInputs :
                ( /\ CommitRead(c, hsh, shard, timestamp, meta, TRUE, TRUE, TRUE)
                  /\ ~Validated[hsh].err
                  /\ Matching(Table(Validated[hsh].diskPart),
                              Validated[hsh].hsh, shard) # {}
                  /\ StoredRow(hsh, shard).timestamp > timestamp
                  /\ StoredRow(hsh, shard).metahash # meta.metahash
                  /\ ~Unmarshal(meta.metadata).err
                  /\ ~Unmarshal(StoredRow(hsh, shard).metadata).err )
                => \A r \in dbs' :
                      ( /\ r.diskPart = Validated[hsh].diskPart
                        /\ r.hash = Validated[hsh].hsh /\ r.shard = shard )
                      => DOMAIN Unmarshal(meta.metadata).store
                            \subseteq DOMAIN Unmarshal(r.metadata).store
      ]_vars

\* -----------------------------------------------------------------
\* C10 as stated: a commit that wins over a record of another metahash whose
\* stored metadata does not decode does not fail at the merge.
C10_CorruptStoredNeverFails ==
    [][\A c \in Calls :
          (calls[c].pc = "opened" /\ calls'[c].pc # "opened") =>
             \A hsh \in CommitHashes, shard \in Shards,
                timestamp \in Timestamps, meta \in MetaInputs :
                ( /\ WinsWithOtherMetahash(c, hsh, shard, timestamp, meta)
                  /\ Unmarshal(StoredRow(hsh, shard).metadata).err )
                => calls'[c].pc = "save"
      ]_vars

\* C10, amended: a commit that wins over a record of another metahash whose
\* stored metadata does not decode, with incoming metadata that decodes, does
\* not fail at the merge: it goes on with the incoming timestamp and the
\* metahash and metadata of the caller, and that, with the blob published
\* at the path of the incoming timestamp, is what its transaction stores.
C10_CorruptStoredIsDiscarded ==
    [][\A c \in Calls :
          /\ (calls[c].pc = "opened" /\ calls'[c].pc # "opened") =>
               \A hsh \in CommitHashes, shard \in Shards,
                  timestamp \in Timestamps, meta \in MetaInputs :
                  ( /\ WinsWithOtherMetahash(c, hsh, shard, timestamp, meta)
                    /\ Unmarshal(StoredRow(hsh, shard).metadata).err
                    /\ ~Unmarshal(meta.metadata).err )
                  => /\ calls'[c].pc = "save"
                     /\ calls'[c].timestamp = timestamp
                     /\ calls'[c].metahash = meta.metahash
                     /\ calls'[c].metadata = meta.metadata
          /\ Commits(c) =>
               /\ NewRow(c) \in dbs'
               /\ PathOf(NewRow(c)) \in DOMAIN files'
               /\ \A r \in RowsAfter(c) : r.timestamp = calls[c].timestamp
      ]_vars

\* The existing record, whose metadata does not decode, has just been replaced
\* by a commit of decodable metadata: the record holds what the caller passed
\* and the blob of the commit is at the path of its timestamp.
C10_Witness ==
    \E c \in Calls : \E r \in RowsOf(c) :
        /\ calls[c].pc = "remove"
        /\ calls[c].removeOlder = PathOf(ExistingRow)
        /\ r.timestamp = calls[c].timestamp
        /\ r.metahash = Hash(StoreB) /\ r.metadata = Marshal(StoreB)
        /\ PathOf(r) \in DOMAIN files /\ files[PathOf(r)] = BytesOf(c)

\* -----------------------------------------------------------------
\* C11: a commit that wins over a record of another metahash with metadata of
\* the caller that does not decode fails: Commit returns the error, the
\* tables and the files are as before (the record and its blob are there,
\* nothing is at the final path of the commit) and the handle is abandoned.
C11_UndecodableIncomingFails ==
    [][\A c \in Calls :
          (calls[c].pc = "opened" /\ calls'[c].pc # "opened") =>
             \A hsh \in CommitHashes, shard \in Shards,
                timestamp \in Timestamps, meta \in MetaInputs :
                ( /\ WinsWithOtherMetahash(c, hsh, shard, timestamp, meta)
                  /\ Unmarshal(meta.metadata).err )
                => /\ calls'[c].pc = "done" /\ calls'[c].result = "err"
                   /\ calls'[c].handle = "abandoned"
                   /\ dbs' = dbs /\ files' = files
                   /\ StoredRow(hsh, shard) \in dbs'
                   /\ PathOf(StoredRow(hsh, shard)) \in DOMAIN files'
      ]_vars

\* The only commit made, on the key of the existing record, has returned the
\* error of its metadata: the record and its blob are as they were, and
\* nothing is at the path of the commit.
C11_Witness ==
    \E c \in Calls :
        /\ Returned(c) /\ calls[c].result = "err"
        /\ calls[c].outcome = "metadata error"
        /\ calls[c].handle = "abandoned"
        /\ \A d \in Calls \ {c} : calls[d].pc = "idle"
        /\ RowsOf(c) = {ExistingRow}
        /\ files[PathOf(ExistingRow)] = ExistingBytes
        /\ KeyBlobs(c) = {PathOf(ExistingRow)}

\* -----------------------------------------------------------------
\* the step is Commit of call c up to its merge, finding a row of an older
\* timestamp and another metahash, both metadata decoding, with json.Marshal
\* of the merged store failing
MergeNotEncoded(c, hsh, shard, timestamp, meta, dbEncOK) ==
    /\ CommitRead(c, hsh, shard, timestamp, meta, TRUE, FALSE, dbEncOK)
    /\ ~Validated[hsh].err
    /\ Merges(StoredRow(hsh, shard), timestamp, meta)

\* the commit goes on with the metahash and metadata of the caller
FallsBack(c, meta) ==
    /\ calls'[c].pc = "save"
    /\ calls'[c].metahash = meta.metahash
    /\ calls'[c].metadata = meta.metadata

\* C12 as stated: when the merged metadata does not encode, the commit fails
\* if the stored metadata does not encode either, and goes on with the
\* metahash and metadata of the caller if the stored metadata encodes.
C12_FallsBackWhenStoredEncodes ==
    [][\A c \in Calls :
          (calls[c].pc = "opened" /\ calls'[c].pc # "opened") =>
             \A hsh \in CommitHashes, shard \in Shards,
                timestamp \in Timestamps, meta \in MetaInputs,
                dbEncOK \in BOOLEAN :
                MergeNotEncoded(c, hsh, shard, timestamp, meta, dbEncOK)
                => IF dbEncOK
                   THEN FallsBack(c, meta)
                   ELSE calls'[c].pc = "done" /\ calls'[c].result = "err"
      ]_vars

\* C12, amended: when the merged metadata does not encode, the commit goes on
\* with the metahash and metadata of the caller, unmerged, if the stored
\* metadata does not encode either, and fails with the error, changing
\* nothing, if the stored metadata encodes.
C12_FallsBackWhenStoredFailsToo ==
    [][\A c \in Calls :
          (calls[c].pc = "opened" /\ calls'[c].pc # "opened") =>
             \A hsh \in CommitHashes, shard \in Shards,
                timestamp \in Timestamps, meta \in MetaInputs,
                dbEncOK \in BOOLEAN :
                MergeNotEncoded(c, hsh, shard, timestamp, meta, dbEncOK)
                => IF dbEncOK
                   THEN /\ calls'[c].pc = "done" /\ calls'[c].result = "err"
                        /\ calls'[c].handle = "abandoned"
                        /\ dbs' = dbs /\ files' = files
                   ELSE /\ FallsBack(c, meta)
                        /\ calls'[c].timestamp = timestamp
                        /\ calls'[c].outcome = LogReencoding
      ]_vars

\* A commit goes on with its own metadata, unmerged, over a record of other
\* metadata that decodes, after neither store was encoded.
C12_Witness ==
    \E c \in Calls : \E r \in RowsOf(c) :
        /\ calls[c].pc = "save"
        /\ calls[c].outcome = LogReencoding
        /\ calls[c].metahash = Hash(StoreA) /\ calls[c].metadata = Marshal(StoreA)
        /\ r.metahash = Hash(StoreB) /\ r.metadata = Marshal(StoreB)
        /\ r.timestamp < calls[c].timestamp

\* -----------------------------------------------------------------
\* the strings that are not 32 hexadecimal characters
HexChars ==
    {"0", "1", "2", "3", "4", "5", "6", "7", "8", "9", "a", "b", "c", "d", "e",
     "f", "A", "B", "C", "D", "E", "F"}
NotAHash(h) == Len(h) # 32 \/ \E i \in 1..Len(h) : h[i] \notin HexChars
NoTempHashes == {h \in TempHashes : NotAHash(h)}
NoLookupHashes == {h \in LookupHashes : NotAHash(h)}
NoListHashes == {h \in ListHashes : NotAHash(h)}
NoCommitHashes == {h \in CommitHashes : NotAHash(h)}

\* call c returns an error in this step and nothing else happens: no table
\* and no file changes, no temp file is created, no transaction is begun
Rejected(c) ==
    /\ calls'[c].pc = "done" /\ calls'[c].result = "err"
    /\ calls'[c].handle = calls[c].handle
    /\ calls'[c].removeOlder = NoPath
    /\ dbs' = dbs /\ files' = files
    /\ \A d \in Calls \ {c} : calls'[d] = calls[d]

\* C13: TempFile, Commit, Lookup and List called with a string that is not 32
\* hexadecimal characters (List: as start or as stop) return an error and do
\* nothing else: in no state can such a call take a step that is not a
\* rejection.
C13_InvalidHashRejected ==
    \A c \in Calls :
        /\ calls[c].pc = "idle" =>
              /\ \A hsh \in NoTempHashes, ok \in BOOLEAN :
                    ~ENABLED (/\ TempFile(c, hsh, ok)
                              /\ ~(Rejected(c) /\ calls'[c].handle = "none"))
              /\ \A hsh \in NoLookupHashes, shard \in {0, 1}, ok \in BOOLEAN :
                    ~ENABLED (/\ Lookup(c, hsh, shard, ok) \/ lookup(c, hsh, shard, ok)
                              /\ ~(Rejected(c) /\ calls'[c].returned.path = NoPath))
              /\ \A bad \in NoListHashes, other \in ListHashes, ok \in BOOLEAN :
                    ~ENABLED (/\ List(c, bad, other, ok) \/ List(c, other, bad, ok)
                              /\ ~(Rejected(c) /\ calls'[c].returned.listing = << >>))
        /\ calls[c].pc = "opened" =>
              \A hsh \in NoCommitHashes, shard \in Shards,
                 timestamp \in Timestamps, meta \in MetaInputs, ok \in BOOLEAN :
                 ~ENABLED (/\ CommitRead(c, hsh, shard, timestamp, meta, ok, TRUE, TRUE)
                           /\ ~Rejected(c))

\* A commit and a lookup were called with strings that are not hashes, one
\* with a character that is no hex digit, one too long: both returned an error.
C13_Witness ==
    \E c, d \in Calls :
        /\ Returned(c) /\ calls[c].result = "err"
        /\ calls[c].handle = "open" /\ calls[c].hsh = << >>
        /\ Returned(d) /\ calls[d].result = "err"
        /\ calls[d].returned = ZeroReturn("lookup")
        /\ dbs \in {{NeighbourRow} \cup ListedRows,
                    {NeighbourRow, ExistingRow} \cup ListedRows}

\* -----------------------------------------------------------------
\* a <= b as hexadecimal numbers of HashLen digits
RECURSIVE HexAtMost(_, _, _)
HexAtMost(a, b, i) ==
    IF i > HashLen THEN TRUE
    ELSE IF HexVal(a[i]) # HexVal(b[i]) THEN HexVal(a[i]) < HexVal(b[i])
    ELSE HexAtMost(a, b, i + 1)

\* the step is a read of call c by operation op
Reads(c, ops) ==
    /\ calls[c].pc = "idle" /\ calls'[c].pc = "done"
    /\ calls'[c].returned # << >>
    /\ calls'[c].returned.op \in ops

\* C15: List(start, stop) with valid hashes start <= stop and no query error
\* returns the records of all partitions with start <= hash <= stop, each
\* once, with hash, shard, timestamp and metahash, and no other.
C15_ListReturnsRange ==
    [][\A c \in Calls :
          ( /\ Reads(c, {"List"})
            /\ calls'[c].result # "err"
            /\ calls'[c].returned.startHash # << >>
            /\ calls'[c].returned.stopHash # << >> )
          => LET got == calls'[c].returned
                 inRange == {r \in dbs : /\ HexAtMost(got.startHash, r.hash, 1)
                                         /\ HexAtMost(r.hash, got.stopHash, 1)}
             IN  /\ calls'[c].result = "ok"
                 /\ {got.listing[i] : i \in 1..Len(got.listing)}
                       = {Item(r) : r \in inRange}
                 /\ Len(got.listing) = Cardinality(inRange)
                 /\ dbs' = dbs /\ files' = files
      ]_vars

\* List(40..0, bf..f) has returned three records: the two shards of 7f..f,
\* one of them as a commit has just stored it, and bf..f; not 00..0, not ff..f.
C15_Witness ==
    \E c, d \in Calls :
        /\ Returned(c) /\ calls[c].result = "ok"
        /\ calls[c].returned # << >> /\ calls[c].returned.op = "List"
        /\ calls[c].returned.startHash = Validated[Hash40].hsh
        /\ calls[c].returned.stopHash = Validated[HashBF].hsh
        /\ Len(calls[c].returned.listing) = 3
        /\ OkCommit(d) /\ Applied(d)
        /\ \E i \in 1..3 : calls[c].returned.listing[i] = Item(NewRow(d))
        /\ \E i \in 1..3 : calls[c].returned.listing[i].hash = Validated[HashBF].hsh

\* -----------------------------------------------------------------
\* the record of the key that the read of call c asked for
AskedRows(c) ==
    {r \in dbs : /\ r.hash = calls'[c].returned.hsh
                 /\ r.shard = calls'[c].returned.shard}

ReturnsRecord(c, r) ==
    /\ calls'[c].result = "ok"
    /\ calls'[c].returned.timestamp = r.timestamp
    /\ calls'[c].returned.metahash = r.metahash
    /\ calls'[c].returned.metadata = r.metadata
    /\ calls'[c].returned.path = <<r.diskPart, r.hash, r.shard, r.timestamp>>

\* C16: a lookup of a key that has a record, with no query error, returns the
\* timestamp, metahash and metadata of the record and the path of its blob,
\* and changes neither the tables nor the files.
C16_LookupReturnsRecord ==
    [][\A c \in Calls :
          ( /\ Reads(c, {"Lookup", "lookup"})
            /\ calls'[c].result # "err"
            /\ AskedRows(c) # {} )
          => /\ \E r \in AskedRows(c) : ReturnsRecord(c, r)
             /\ dbs' = dbs /\ files' = files
      ]_vars

\* -----------------------------------------------------------------
\* C17: a lookup of a valid hash with no record ends with an error outcome
\* that is neither the success of a lookup nor its error of a query; a List
\* over a range without records returns an empty listing and no error.
C17_NotFoundIsAnError ==
    [][\A c \in Calls :
          /\ ( /\ Reads(c, {"Lookup", "lookup"})
               /\ calls'[c].returned.hsh # << >>
               /\ calls'[c].result # "err"
               /\ AskedRows(c) = {} )
             => calls'[c].result \notin {"ok", "err"}
          /\ ( /\ Reads(c, {"List"})
               /\ calls'[c].result # "err"
               /\ calls'[c].returned.startHash # << >>
               /\ calls'[c].returned.stopHash # << >>
               /\ ~\E r \in dbs : /\ HexAtMost(calls'[c].returned.startHash, r.hash, 1)
                                  /\ HexAtMost(r.hash, calls'[c].returned.stopHash, 1) )
             => calls'[c].result = "ok" /\ calls'[c].returned.listing = << >>
      ]_vars

\* -----------------------------------------------------------------
\* C18: a lookup that runs while a commit to its key has its transaction
\* open returns the whole record as it was when the commit read it, nothing
\* of what the commit is about to store; in every case what a lookup returns
\* is one whole committed record of the key.
C18_LookupSeesWholeCommittedRecord ==
    [][\A c \in Calls :
          ( /\ Reads(c, {"Lookup", "lookup"})
            /\ calls'[c].result = "ok"
            /\ calls'[c].returned.hsh # << >> )
          => /\ IF AskedRows(c) = {}
                THEN calls'[c].returned.path = NoPath
                ELSE \E r \in AskedRows(c) : ReturnsRecord(c, r)
             /\ \A d \in Calls \ {c} :
                   ( /\ InTx(d)
                     /\ calls[d].hsh = calls'[c].returned.hsh
                     /\ calls[d].shard = calls'[c].returned.shard )
                   => /\ calls'[c].returned.path = calls[d].removeOlder
                      /\ calls'[c].returned.timestamp < calls[d].timestamp
      ]_vars

\* A lookup has returned the stored record, whole, while a commit that
\* replaces it with other metadata has executed its UPDATE and not committed.
C18_Witness ==
    \E c, d \in Calls :
        /\ calls[d].pc = "txcommit" /\ calls[d].removeOlder = PathOf(ExistingRow)
        /\ calls[d].metadata # ExistingRow.metadata
        /\ Returned(c) /\ calls[c].result = "ok"
        /\ calls[c].returned # << >>
        /\ calls[c].returned.op \in {"Lookup", "lookup"}
        /\ calls[c].returned.path = PathOf(ExistingRow)
        /\ calls[c].returned.metahash = ExistingRow.metahash
        /\ calls[c].returned.metadata = ExistingRow.metadata
        /\ ExistingRow \in dbs

\* -----------------------------------------------------------------
\* the value of the two hexadecimal digits x y
DigitValue ==
    [ch \in HexChars |->
        CASE ch = "0" -> 0 [] ch = "1" -> 1 [] ch = "2" -> 2 [] ch = "3" -> 3
          [] ch = "4" -> 4 [] ch = "5" -> 5 [] ch = "6" -> 6 [] ch = "7" -> 7
          [] ch = "8" -> 8 [] ch = "9" -> 9
          [] ch \in {"a", "A"} -> 10 [] ch \in {"b", "B"} -> 11
          [] ch \in {"c", "C"} -> 12 [] ch \in {"d", "D"} -> 13
          [] ch \in {"e", "E"} -> 14 [] ch \in {"f", "F"} -> 15]
ByteValue(x, y) == 16 * DigitValue[x] + DigitValue[y]

\* bit k of byte b, bit 7 the highest
Bit(b, k) == (b \div (2 ^ k)) % 2

\* the number whose binary digits are the top n bits of byte b
RECURSIVE TopBits(_, _)
TopBits(b, n) == IF n = 0 THEN 0 ELSE 2 * TopBits(b, n - 1) + Bit(b, 8 - n)

LowerLetter ==
    [ch \in HexChars |->
        CASE ch = "A" -> "a" [] ch = "B" -> "b" [] ch = "C" -> "c"
          [] ch = "D" -> "d" [] ch = "E" -> "e" [] ch = "F" -> "f"
          [] OTHER -> ch]

\* C14: for a valid hash and a partition power P in 1..8 validateHash returns
\* no error, the hash in lower case and the top P bits of its first byte, a
\* number in 0..2^P-1; the upper case and the lower case form of a hash, and
\* repeated calls, give the same result.
C14_PartitionIsTopBits ==
    \A c \in Calls : calls[c].pc = "done" =>
        LET P == calls[c].ft.diskPartPower
            h == calls[c].hsh
            got == calls[c].result
        IN  /\ ~got.err
            /\ got.hsh = [i \in 1..32 |-> LowerLetter[h[i]]]
            /\ got.diskPart = TopBits(ByteValue(h[1], h[2]), P)
            /\ got.diskPart \in 0..((2 ^ P) - 1)
            /\ \A d \in Calls : calls[d].pc = "done" => calls[d].result = got

\* The upper case form and the lower case form of a5ee..e were validated by a
\* tracker of partition power 3: both gave a5ee..e and partition 5.
C14_Witness ==
    /\ \A c \in Calls : calls[c].pc = "done"
    /\ calls[1].hsh = <<"A", "5">> \o Rep("E", HashLen - 2)
    /\ calls[2].hsh = <<"a", "5">> \o Rep("e", HashLen - 2)
    /\ calls[1].ft.diskPartPower = 3
    /\ calls[1].result.diskPart = 5
    /\ calls[2].result.hsh = calls[2].hsh

\* -----------------------------------------------------------------
\* the calls with an open transaction are all on other partitions than d
AloneOnPartition(d) ==
    \A c \in Calls \ {d} : InTx(c) => calls[c].diskPart # calls[d].diskPart

\* C19: a commit is never blocked or failed by commits on other partitions:
\* whenever the open transactions of the other calls are all on other
\* partitions, its f.Save, its tx.Exec and its tx.Commit can succeed, as
\* they can when it runs alone.
C19_PartitionsDoNotBlock ==
    \A d \in Calls : AloneOnPartition(d) =>
        /\ calls[d].pc = "save" => ENABLED Save(d, TRUE)
        /\ calls[d].pc = "exec" => ENABLED Exec(d, TRUE)
        /\ calls[d].pc = "txcommit" => ENABLED TxCommit(d, TRUE)

\* Two commits on different partitions have both executed their statement
\* and are about to commit, which two commits on one partition never are.
C19_Witness ==
    \E c, d \in Calls :
        /\ calls[c].pc = "txcommit" /\ calls[d].pc = "txcommit"
        /\ calls[c].diskPart # calls[d].diskPart

\* -----------------------------------------------------------------
\* C20: when NewFileTracker returns an error, no database handle that it
\* opened is still open.
C20_FailedConstructionLeavesNothingOpen ==
    (calls[1].pc = "done" /\ calls[1].result = "err") => calls[1].open = {}

\* -----------------------------------------------------------------
\* the record of the key of call c, and whether some record refers to a path
RecordOf(c) == SelectRow(RowsOf(c), calls[c].hsh, calls[c].shard)
Referenced(pth) == \E r \in dbs : PathOf(r) = pth

\* C21: when os.Remove of the superseded file fails after tx.Commit, Commit
\* returns success, no table and no file changes, the record of the key and
\* its blob are in place, and the old file is left on disk, referenced by no
\* record.
C21_FailedRemovalStillSucceeds ==
    [][\A c \in Calls :
          (calls[c].pc = "remove" /\ calls'[c].pc # "remove"
           /\ RemoveOlder(c, FALSE))
          => /\ calls'[c].pc = "done" /\ calls'[c].result = "ok"
             /\ dbs' = dbs /\ files' = files
             /\ RowsOf(c) # {}
             /\ RecordOf(c).timestamp >= calls[c].timestamp
             /\ PathOf(RecordOf(c)) \in DOMAIN files'
             /\ calls[c].removeOlder \in DOMAIN files'
             /\ ~Referenced(calls[c].removeOlder)
      ]_vars

\* A commit returned success after the removal of the older file failed: the
\* record carries its timestamp, its blob is on disk, and so is another blob
\* of the key.
C21_Witness ==
    \E c \in Calls :
        /\ OkCommit(c) /\ calls[c].outcome = "applied, older file left"
        /\ RowsOf(c) # {}
        /\ RecordOf(c).timestamp = calls[c].timestamp
        /\ files[PathOf(RecordOf(c))] = BytesOf(c)
        /\ \E p \in KeyBlobs(c) : p # PathOf(RecordOf(c)) /\ ~Referenced(p)

\* -----------------------------------------------------------------
\* C22: no step deletes a record, and a step that changes the record of a
\* key stores a timestamp strictly above the one it replaces.
C22_RecordsStayAndTimestampsRise ==
    [][\A r \in dbs :
          /\ Cardinality(Matching(dbs', r.hash, r.shard)) = 1
          /\ \A q \in Matching(dbs', r.hash, r.shard) :
                q = r \/ q.timestamp > r.timestamp
      ]_vars

\* The record of a key was changed twice, by a commit and then by a commit of
\* a higher timestamp, and carries the timestamp of the second.
C22_Witness ==
    \E c, d \in Calls :
        /\ OkCommit(c) /\ Applied(c) /\ OkCommit(d) /\ Applied(d) /\ SameKey(c, d)
        /\ 0 < calls[c].timestamp /\ calls[c].timestamp < calls[d].timestamp
        /\ RowsOf(d) # {} /\ RecordOf(d).timestamp = calls[d].timestamp

\* -----------------------------------------------------------------
\* what a caller and an observer get of a returned Commit: the error it
\* returned and what it logged
Observed(c) == [result |-> calls[c].result, logged |-> calls[c].logged]
Discarded(c) == Committed(c) /\ calls[c].outcome = "discarded"

\* C23: a commit that was discarded as stale returns no error, and what is
\* observed of it differs from what is observed of every commit that was
\* applied.
C23_StaleWriteDistinguishable ==
    \A c \in Calls : Discarded(c) =>
        /\ calls[c].result = "ok"
        /\ \A d \in Calls : (Committed(d) /\ Applied(d)) => Observed(c) # Observed(d)

\* -----------------------------------------------------------------
\* C24: in every state, those inside commits in progress included, the blob
\* file at the path of every committed record exists, and the file a commit
\* is about to remove is not the one a committed record refers to.
C24_CommittedRecordHasItsBlob ==
    /\ \A r \in dbs : FileExists(PathOf(r))
    /\ \A c \in Calls : calls[c].pc = "remove" => ~Referenced(calls[c].removeOlder)

\* A commit has replaced the record of a key and has not yet removed the older
\* file, while another commit to the same key has published its file and
\* holds a transaction.
C24_Witness ==
    \E c, d \in Calls :
        /\ calls[c].pc = "remove" /\ FileExists(calls[c].removeOlder)
        /\ RecordOf(c).timestamp = calls[c].timestamp
        /\ InTx(d) /\ calls[d].handle = "saved" /\ SameKey(c, d)
        /\ calls[d].timestamp > calls[c].timestamp

\* -----------------------------------------------------------------
\* the commit of (hsh, shard, timestamp, meta) finds a record that is older
\* and of another metahash
Reconciles(hsh, shard, timestamp, meta) ==
    LET m == Matching(Table(Validated[hsh].diskPart), Validated[hsh].hsh, shard) IN
    \E r \in m : r.timestamp < timestamp /\ r.metahash # meta.metahash

\* the commit finds no record, or an older one
Wins(hsh, shard, timestamp) ==
    LET m == Matching(Table(Validated[hsh].diskPart), Validated[hsh].hsh, shard) IN
    \A r \in m : r.timestamp < timestamp

\* in this step call c gets past the merge with the metahash and the
\* metadata of the caller as they are, and logs nothing
KeepsCallerMetadata(c, meta) ==
    /\ calls'[c].pc = "save"
    /\ calls'[c].metahash = meta.metahash /\ calls'[c].metadata = meta.metadata
    /\ calls'[c].logged = calls[c].logged

\* C25: a commit whose database calls succeed goes through the metadata
\* merge only when it finds a record that is older and of another metahash;
\* every other winning commit goes on with the caller's metahash and metadata
\* bytes as they are, whatever the bytes, and tx.Commit stores them.
C25_ReconcilerOnlyOnOlderDifferentMetahash ==
    \A c \in Calls :
        /\ calls[c].pc = "opened" =>
              \A hsh \in CommitHashes \ NoCommitHashes, shard \in Shards,
                 timestamp \in Timestamps, meta \in MetaInputs,
                 encOK, dbEncOK \in BOOLEAN :
                 ~ENABLED (/\ CommitRead(c, hsh, shard, timestamp, meta, TRUE,
                                         encOK, dbEncOK)
                           /\ \/ /\ Wins(hsh, shard, timestamp)
                                 /\ ~Reconciles(hsh, shard, timestamp, meta)
                                 /\ ~KeepsCallerMetadata(c, meta)
                              \/ /\ ~Reconciles(hsh, shard, timestamp, meta)
                                 /\ \/ calls'[c].outcome = "metadata error"
                                    \/ calls'[c].logged # calls[c].logged
                                    \/ /\ calls'[c].pc = "save"
                                       /\ calls'[c].metadata # meta.metadata)
        /\ calls[c].pc = "txcommit" =>
              ~ENABLED (TxCommit(c, TRUE) /\ NewRow(c) \notin dbs')

\* A record holds metadata bytes that do not decode: a commit stored them
\* for a key without a record, and a later commit of the same metahash
\* replaced the record with them, logging nothing.
C25_Witness ==
    \E c, d \in Calls :
        /\ OkCommit(c) /\ Applied(c) /\ OkCommit(d) /\ Applied(d) /\ SameKey(c, d)
        /\ calls[c].timestamp < calls[d].timestamp
        /\ calls[c].logged = << >> /\ calls[d].logged = << >>
        /\ RowsOf(d) # {}
        /\ RecordOf(d).timestamp = calls[d].timestamp
        /\ RecordOf(d).metahash = OpaqueHash
        /\ RecordOf(d).metadata = CorruptBytes

\* -----------------------------------------------------------------
\* the calls that take this step, and the rows of the keys of none of them
Acting(c) == calls'[c] # calls[c]
OfOtherKey(r) ==
    \A c \in Calls :
        Acting(c) => ~(r.hash = calls'[c].hsh /\ r.shard = calls'[c].shard)

\* the names of the files of every hash, shard and timestamp in use
FileName ==
    [p \in {wholeFilePath(h, shard, timestamp) :
               h \in {a \in HashArgs : ~Validated[a].err},
               shard \in {0, 1}, timestamp \in 0..MaxTimestamp}
        |-> Sprintf(p)]

\* the file of the name that the path of row r is formatted to is in place
\* before and after the step, with the same bytes
BlobKept(r) ==
    \A p \in DOMAIN files \cup DOMAIN files' :
        FileName[p] = FileName[PathOf(r)]
        => /\ p \in DOMAIN files /\ p \in DOMAIN files'
           /\ files'[p] = files[p]

\* C26: a step of a commit, whatever its outcome, leaves the record and the
\* blob file of every other key as they are, the key of the same hash and
\* another shard and the key of another hash in the same partition included,
\* and creates no record of another key; the names of the files of distinct
\* (hash, shard, timestamp) are distinct.
C26_OtherKeysUntouched ==
    [][(dbs' # dbs \/ files' # files) =>
          /\ \A r \in dbs : OfOtherKey(r) => r \in dbs' /\ BlobKept(r)
          /\ \A r \in dbs' : OfOtherKey(r) => r \in dbs
          /\ \A p, q \in DOMAIN files' : FileName[p] = FileName[q] => p = q
      ]_vars

\* A commit has replaced the record of its key with the timestamp of the
\* records of the two other keys and has removed the older file; the records
\* and the files of the other keys are as they were.
C26_Witness ==
    \E c \in Calls :
        /\ OkCommit(c) /\ calls[c].outcome = "applied"
        /\ calls[c].timestamp = NeighbourRow.timestamp
        /\ calls[c].timestamp = SamePartitionRow.timestamp
        /\ ~FileExists(PathOf(ExistingRow))
        /\ FileExists(PathOf(NewRow(c)))
        /\ files[PathOf(NewRow(c))] = BytesOf(c)
        /\ {NeighbourRow, SamePartitionRow} \subseteq dbs
        /\ FileExists(PathOf(NeighbourRow))
        /\ files[PathOf(NeighbourRow)] = ExistingBytes
        /\ FileExists(PathOf(SamePartitionRow))
        /\ files[PathOf(SamePartitionRow)] = ExistingBytes

\* -----------------------------------------------------------------
\* startHash is greater than stopHash, both valid
Reversed(startHash, stopHash) ==
    /\ ~Validated[startHash].err /\ ~Validated[stopHash].err
    /\ ~HashLeq(Validated[startHash].hsh, Validated[stopHash].hsh)

\* C27: List with a start hash greater than the stop hash, whose queries
\* succeed, returns an error exactly when the partition of the start hash is
\* above the partition of the stop hash and an empty listing without error
\* when both are in one partition; it returns no record and changes no table
\* either way.
C27_ReversedRangeErrorsAcrossPartitionsOnly ==
    \A c \in Calls : calls[c].pc = "idle" =>
        \A startHash, stopHash \in RangeHashes :
            Reversed(startHash, stopHash) =>
                ~ENABLED (/\ List(c, startHash, stopHash, TRUE)
                          /\ ~(/\ calls'[c].pc = "done"
                               /\ calls'[c].returned.listing = << >>
                               /\ dbs' = dbs /\ files' = files
                               /\ calls'[c].result =
                                    IF Validated[startHash].diskPart
                                         > Validated[stopHash].diskPart
                                    THEN "err" ELSE "ok"))

\* A listing from 7fff..f down to 7e00..0, both of partition 31 and both the
\* hash of a record, returned no error and no item.
C27_Witness ==
    \E c \in Calls :
        /\ Returned(c) /\ calls[c].result = "ok"
        /\ calls[c].returned # << >> /\ calls[c].returned.op = "List"
        /\ calls[c].returned.startHash = Validated[HashUpper].hsh
        /\ calls[c].returned.stopHash = Validated[Hash7E].hsh
        /\ Validated[HashUpper].diskPart = Validated[Hash7E].diskPart
        /\ calls[c].returned.listing = << >>
        /\ \E r, q \in dbs : r.hash = calls[c].returned.startHash
                              /\ q.hash = calls[c].returned.stopHash

====
